---- MODULE Spec2Model ----
(***************************************************************************)
(* Rentello web backend: the /predict and /suggest handlers of             *)
(* src/api/app.py and of its second deployment src/Rentello/api/index.py,  *)
(* with the text utilities clean_text, parse_json_array and                *)
(* fallback_extract_lines they share.                                      *)
(*                                                                         *)
(* A Python str is a sequence of characters, each a one-character string.  *)
(* The reasoning tags are kept as single items ("<think>", "</think>" and  *)
(* their case variants): the texts of the model are the strings in which   *)
(* the letters of "think" occur only inside such a tag.                    *)
(* A Python / JSON value is a record [t |-> type, v |-> payload].          *)
(* Strings of the module are ASCII: the dash of the fallback entries is    *)
(* written "-" and the bullet of the list prefixes "*bullet*".             *)
(***************************************************************************)
EXTENDS Integers, Sequences, FiniteSets, TLC

\* ---------------------------------------------------------------- bounds
MaxLen == 3

\* ------------------------------------------------------- Python values
None == [t |-> "none", v |-> <<>>]
Str(s) == [t |-> "str", v |-> s]
Num(n) == [t |-> "num", v |-> n]
\* a number read from JSON text, kept as its literal
NumLit(s) == [t |-> "numlit", v |-> s]
List(s) == [t |-> "list", v |-> s]
Dict(f) == [t |-> "dict", v |-> f]
EmptyDict == Dict([k \in {} |-> None])

\* Python truthiness, as used by `not x` and `x or y`
Truthy(x) ==
  CASE x.t = "none" -> FALSE
    [] x.t = "num" -> x.v # 0
    [] x.t = "dict" -> DOMAIN x.v # {}
    [] OTHER -> Len(x.v) > 0

\* result of a call: a value, or a raised exception with its str()
Ok(v) == [exc |-> "", msg |-> "", val |-> v]
Raise(type, msg) == [exc |-> type, msg |-> msg, val |-> None]
Raised(r) == r.exc # ""

\* ------------------------------------------------------ text primitives
ThinkOpen == {"<think>", "<THINK>", "<Think>"}
ThinkClose == {"</think>", "</THINK>", "</Think>"}
TagItems == ThinkOpen \cup ThinkClose

IsSpace(c) == c \in {" ", "\n", "\t", "\r"}
IsNewline(c) == c \in {"\n", "\r"}
IsDigit(c) == c \in {"0", "1", "2", "3", "4", "5", "6", "7", "8", "9"}
StartsWithLt(c) == c = "<" \/ c \in TagItems
CharLen(c) == IF c \in ThinkOpen THEN 7 ELSE IF c \in ThinkClose THEN 8 ELSE 1

Drop(s, n) == IF n >= Len(s) THEN <<>> ELSE SubSeq(s, n + 1, Len(s))

RECURSIVE lstrip(_)
lstrip(s) == IF s # <<>> /\ IsSpace(Head(s)) THEN lstrip(Tail(s)) ELSE s

RECURSIVE rstrip(_)
rstrip(s) ==
  IF s # <<>> /\ IsSpace(s[Len(s)]) THEN rstrip(SubSeq(s, 1, Len(s) - 1)) ELSE s

\* str.strip()
strip(s) == rstrip(lstrip(s))

\* ------------------------------------------------------------ clean_text
\* The text is carried with the position each character had in the input,
\* so that what survives can be traced back: item = [c |-> char, i |-> pos].
Mark(s) == [k \in 1..Len(s) |-> [c |-> s[k], i |-> k]]
Unmark(m) == [k \in 1..Len(m) |-> m[k].c]

\* least position of m holding a character of S, 0 if there is none
FirstAt(m, S) ==
  IF \E k \in 1..Len(m) : m[k].c \in S
    THEN CHOOSE k \in 1..Len(m) : m[k].c \in S /\ \A j \in 1..(k - 1) : m[j].c \notin S
    ELSE 0

\* removal of every leftmost shortest match of open .*? close, "." matching
\* every character (re.S)
RECURSIVE SubThinkWith(_, _, _)
SubThinkWith(m, opens, closes) ==
  IF m = <<>> THEN <<>>
  ELSE IF m[1].c \in opens /\ FirstAt(Tail(m), closes) > 0
    THEN SubThinkWith(Drop(m, 1 + FirstAt(Tail(m), closes)), opens, closes)
    ELSE <<Head(m)>> \o SubThinkWith(Tail(m), opens, closes)

\* re.sub(r"<think>.*?</think>", "", text, flags=re.S | re.I)
SubThink(m) == SubThinkWith(m, ThinkOpen, ThinkClose)

\* end of the shortest match of "<.*?>" starting at Head(m), 0 if none:
\* "." does not match a line break (no re.S on this substitution)
TagEnd(m) ==
  IF m = <<>> \/ ~StartsWithLt(m[1].c) THEN 0
  ELSE IF m[1].c \in TagItems THEN 1
  ELSE LET k == FirstAt(Tail(m), {">"} \cup TagItems)
       IN IF k > 0 /\ \A j \in 2..k : ~IsNewline(m[j].c) THEN k + 1 ELSE 0

\* re.sub(r"<.*?>", "", text)
RECURSIVE SubTags(_)
SubTags(m) ==
  IF m = <<>> THEN <<>>
  ELSE IF TagEnd(m) > 0 THEN SubTags(Drop(m, TagEnd(m)))
  ELSE <<Head(m)>> \o SubTags(Tail(m))

RECURSIVE lstripM(_)
lstripM(m) == IF m # <<>> /\ IsSpace(m[1].c) THEN lstripM(Tail(m)) ELSE m

RECURSIVE rstripM(_)
rstripM(m) ==
  IF m # <<>> /\ IsSpace(m[Len(m)].c) THEN rstripM(SubSeq(m, 1, Len(m) - 1)) ELSE m

\* clean_text on a non-empty str, keeping the positions
CleanMarked(s) == rstripM(lstripM(SubTags(SubThink(Mark(s)))))

\* clean_text(text): a str; raises TypeError from re.sub when text is truthy
\* and not a str
clean_text(text) ==
  IF ~Truthy(text) THEN Ok(<<>>)
  ELSE IF text.t # "str"
    THEN Raise("TypeError", "expected string or bytes-like object")
  ELSE Ok(Unmark(CleanMarked(text.v)))

\* ------------------------------------------------------------ json.loads
\* The JSON grammar over the characters of the model: white space, strings
\* without escapes, numbers without exponent, arrays.  Every other
\* character (letters, "<", ">", ...) starts no JSON value.
SkipWs(s, i) ==
  IF \E j \in i..Len(s) : ~IsSpace(s[j])
    THEN CHOOSE j \in i..Len(s) : ~IsSpace(s[j]) /\ \A k \in i..(j - 1) : IsSpace(s[k])
    ELSE Len(s) + 1

PFail == [ok |-> FALSE, val |-> None, nxt |-> 0]
POk(v, n) == [ok |-> TRUE, val |-> v, nxt |-> n]

\* s[i] is the opening quote: the string ends at the next quote, and no
\* control character may stand in it (strict mode)
ParseString(s, i) ==
  IF \E k \in (i + 1)..Len(s) : s[k] = "\""
    THEN LET k == CHOOSE k \in (i + 1)..Len(s) :
                    s[k] = "\"" /\ \A j \in (i + 1)..(k - 1) : s[j] # "\""
         IN IF \A j \in (i + 1)..(k - 1) : s[j] \notin {"\n", "\t", "\r"}
              THEN POk(Str(SubSeq(s, i + 1, k - 1)), k + 1)
              ELSE PFail
    ELSE PFail

\* end of the maximal run of digits that starts at i (i - 1 if none)
DigitsEnd(s, i) ==
  IF i <= Len(s) /\ IsDigit(s[i])
    THEN CHOOSE k \in i..Len(s) :
           /\ \A j \in i..k : IsDigit(s[j])
           /\ (k = Len(s) \/ ~IsDigit(s[k + 1]))
    ELSE i - 1

\* -? (0 | [1-9][0-9]*) (\. [0-9]+)?
ParseNumber(s, i) ==
  LET a == IF s[i] = "-" THEN i + 1 ELSE i
      b == IF a <= Len(s) /\ s[a] = "0" THEN a ELSE DigitsEnd(s, a)
      c == IF b + 1 <= Len(s) /\ s[b + 1] = "." /\ DigitsEnd(s, b + 2) >= b + 2
             THEN DigitsEnd(s, b + 2) ELSE b
  IN IF b < a THEN PFail ELSE POk(NumLit(SubSeq(s, i, c)), c + 1)

\* a string or a number at position i
ParseScalar(s, i) ==
  IF s[i] = "\"" THEN ParseString(s, i)
  ELSE IF s[i] = "-" \/ IsDigit(s[i]) THEN ParseNumber(s, i)
  ELSE PFail

JFail == [fail |-> TRUE, done |-> FALSE, val |-> None, i |-> 0, stack |-> <<>>, st |-> ""]
JGo(i, stack, st) ==
  [fail |-> FALSE, done |-> FALSE, val |-> None, i |-> i, stack |-> stack, st |-> st]

\* the value val ends before position n: the result when no array is open,
\* otherwise one more element of the innermost open array
Emit(val, n, stack) ==
  IF stack = <<>>
    THEN [fail |-> FALSE, done |-> TRUE, val |-> val, i |-> n, stack |-> <<>>, st |-> ""]
    ELSE JGo(n, [stack EXCEPT ![Len(stack)] = Append(@, val)], "after")

EmitScalar(r, stack) == IF r.ok THEN Emit(r.val, r.nxt, stack) ELSE JFail

\* one step of the decoder at the non-blank position i.  stack holds the
\* elements read so far of the arrays that are open; st says what may come:
\* "value", "first" (a value or "]", right after "[") or "after" ("," or "]")
JsonStep(s, i, stack, st) ==
  IF i > Len(s) THEN JFail
  ELSE IF s[i] = "]" /\ st \in {"first", "after"}
    THEN Emit(List(stack[Len(stack)]), i + 1, SubSeq(stack, 1, Len(stack) - 1))
  ELSE IF st = "after"
    THEN IF s[i] = "," THEN JGo(i + 1, stack, "value") ELSE JFail
  ELSE IF s[i] = "[" THEN JGo(i + 1, Append(stack, <<>>), "first")
  ELSE EmitScalar(ParseScalar(s, i), stack)

\* the decoder run from the step n on
RECURSIVE ParseValue(_, _)
ParseValue(s, n) ==
  IF n.fail THEN PFail
  ELSE IF n.done THEN POk(n.val, n.i)
  ELSE ParseValue(s, JsonStep(s, SkipWs(s, n.i), n.stack, n.st))

\* a value, then nothing but white space
WholeText(s, r) ==
  IF r.ok /\ SkipWs(s, r.nxt) > Len(s)
    THEN Ok(r.val)
    ELSE Raise("JSONDecodeError", "Expecting value")

json_loads(s) == WholeText(s, ParseValue(s, JGo(1, <<>>, "value")))

\* ------------------------------------------------------ parse_json_array
IsStrValue(x) == x.t = "str"
NonBlank(x) == strip(x.v) # <<>>
StripItems(xs) == [k \in 1..Len(xs) |-> strip(xs[k].v)]

\* the entries kept of a list of str: [x.strip() for x in parsed if x.strip()]
KeptEntries(xs) == StripItems(SelectSeq(xs, NonBlank))

\* the list of entries of a decoded array of str, None for everything else
EntriesOf(r) ==
  IF ~Raised(r) /\ r.val.t = "list" /\ \A k \in 1..Len(r.val.v) : IsStrValue(r.val.v[k])
    THEN List(KeptEntries(r.val.v))
    ELSE None

\* parse_json_array(text): the list of entries, or None
parse_json_array(text) == EntriesOf(json_loads(text))

\* ------------------------------------------------- fallback_extract_lines
min_words == 2
max_words == 25
MaxLineChars == 140

\* str.splitlines()
RECURSIVE splitlines(_)
splitlines(s) ==
  IF s = <<>> THEN <<>>
  ELSE IF \E k \in 1..Len(s) : IsNewline(s[k])
    THEN LET k == CHOOSE k \in 1..Len(s) :
                    IsNewline(s[k]) /\ \A j \in 1..(k - 1) : ~IsNewline(s[j])
         IN <<SubSeq(s, 1, k - 1)>> \o splitlines(Drop(s, k))
    ELSE <<s>>

\* the class [\-•\d\.\)\s] of the list prefixes
IsPrefixChar(c) == c \in {"-", "*bullet*", ".", ")"} \/ IsDigit(c) \/ IsSpace(c)

\* re.sub(r"^[...]+", "", l)
RECURSIVE StripPrefix(_)
StripPrefix(l) ==
  IF l # <<>> /\ IsPrefixChar(Head(l)) THEN StripPrefix(Tail(l)) ELSE l

\* len(l.split()): the number of maximal runs of non-blank characters
WordCount(l) ==
  Cardinality({k \in 1..Len(l) : ~IsSpace(l[k]) /\ (k = 1 \/ IsSpace(l[k - 1]))})

RECURSIVE StrLen(_)
StrLen(l) == IF l = <<>> THEN 0 ELSE CharLen(Head(l)) + StrLen(Tail(l))

NotBlankLine(l) == strip(l) # <<>>
CleanLine(l) == strip(StripPrefix(l))
KeepLine(l) ==
  /\ min_words <= WordCount(l) /\ WordCount(l) <= max_words
  /\ StrLen(l) <= MaxLineChars

CleanLines(ls) == [k \in 1..Len(ls) |-> CleanLine(ls[k])]

fallback_extract_lines(text) ==
  SelectSeq(CleanLines(SelectSeq(splitlines(text), NotBlankLine)), KeepLine)

\* ---------------------------------------------------------------- config
\* GROQ_KEY = os.getenv("GROQ_API_KEY"): unset, set to "", or a credential
KeyValues == {None, Str(<<>>), Str(<<"k">>)}

\* model = joblib.load(...), or None when loading raised
ModelValues == {"pipeline", "none"}

LOCAL_FALLBACK ==
  [tier1 |-> << <<"Lodha World Towers - Lower Parel, Mumbai">>,
                <<"Antilia-style luxury residence - Alt Area, Mumbai">>,
                <<"DLF The Crest - Golf Course Road, Gurgaon">> >>,
   tier2 |-> << <<"Prestige Leela Residences - Residency Road, Bangalore">>,
                <<"Hiranandani Towers - Powai, Mumbai">>,
                <<"DLF Phase 4 - Gurgaon">> >>,
   global |-> << <<"One Hyde Park - Knightsbridge, London">>,
                 <<"432 Park Avenue - Manhattan, New York">>,
                 <<"Burj Khalifa Residences - Downtown Dubai">> >>]

Deployments == {"app", "index"}

\* ------------------------------------------------------------- responses
Json200(body) == [status |-> 200, body |-> body]
Json500(body) == [status |-> 500, body |-> body]
\* what the framework answers when a handler lets an exception escape
Unhandled == [status |-> 500, body |-> [html |-> "Internal Server Error"]]
NoResponse == [status |-> 0, body |-> [none |-> ""]]

\* --------------------------------------------------------- Python helpers
DigitVal(c) ==
  CASE c = "0" -> 0 [] c = "1" -> 1 [] c = "2" -> 2 [] c = "3" -> 3 [] c = "4" -> 4
    [] c = "5" -> 5 [] c = "6" -> 6 [] c = "7" -> 7 [] c = "8" -> 8 [] OTHER -> 9

RECURSIVE DigitsVal(_)
DigitsVal(s) ==
  IF s = <<>> THEN 0 ELSE 10 * DigitsVal(SubSeq(s, 1, Len(s) - 1)) + DigitVal(s[Len(s)])

\* float(x) for the values of the model: a number, a str of digits, or a
\* value float() rejects
pyfloat(x) ==
  CASE x.t = "num" -> Ok(x.v)
    [] x.t = "str" ->
         IF x.v # <<>> /\ \A k \in 1..Len(x.v) : IsDigit(x.v[k])
           THEN Ok(DigitsVal(x.v))
           ELSE Raise("ValueError", "could not convert string to float")
    [] OTHER -> Raise("TypeError", "float() argument must be a string or a real number")

\* d.get(key, default) on a dict
DictGet(d, key, default) == IF key \in DOMAIN d.v THEN d.v[key] ELSE default

\* the characters of the keys looked up in a completion
KeyText(key) ==
  IF key = "message" THEN <<"m", "e", "s", "s", "a", "g", "e">> ELSE <<"t", "e", "x", "t">>

IsSubstr(a, b) ==
  \E i \in 0..(Len(b) - Len(a)) : \A k \in 1..Len(a) : b[i + k] = a[k]

\* len(x)
pylen(x) ==
  CASE x.t \in {"list", "str"} -> Ok(Len(x.v))
    [] x.t = "dict" -> Ok(Cardinality(DOMAIN x.v))
    [] OTHER -> Raise("TypeError", "object has no len()")

\* x[0]
pyfirst(x) ==
  CASE x.t = "list" ->
         IF x.v = <<>> THEN Raise("IndexError", "list index out of range") ELSE Ok(x.v[1])
    [] x.t = "str" ->
         IF x.v = <<>> THEN Raise("IndexError", "string index out of range")
         ELSE Ok(Str(<<x.v[1]>>))
    [] x.t = "dict" -> Raise("KeyError", "0")
    [] OTHER -> Raise("TypeError", "object is not subscriptable")

\* key in x
pycontains(x, key) ==
  CASE x.t = "dict" -> Ok(key \in DOMAIN x.v)
    [] x.t = "str" -> Ok(IsSubstr(KeyText(key), x.v))
    [] x.t = "list" ->
         Ok(\E k \in 1..Len(x.v) : x.v[k].t = "str" /\ x.v[k].v = KeyText(key))
    [] OTHER -> Raise("TypeError", "argument is not iterable")

\* x[key] for a str key
pyitem(x, key) ==
  CASE x.t = "dict" ->
         IF key \in DOMAIN x.v THEN Ok(x.v[key]) ELSE Raise("KeyError", key)
    [] x.t = "str" -> Raise("TypeError", "string indices must be integers")
    [] x.t = "list" -> Raise("TypeError", "list indices must be integers or slices, not str")
    [] OTHER -> Raise("TypeError", "object is not subscriptable")

\* x.get(key, "")
pyget(x, key) ==
  IF x.t = "dict" THEN Ok(DictGet(x, key, Str(<<>>)))
  ELSE Raise("AttributeError", "object has no attribute 'get'")

\* -------------------------------------------------- the remote service
\* What the remote service does with the one request of a /suggest call:
\* [kind |-> ..., text |-> ...].  RemoteJson gives the JSON body of the
\* successful answers.
Alphabet == {"<think>", "</think>", "<", ">", "\n", " ", "a", "[", "]", "1"}
Texts == UNION {[1..n -> Alphabet] : n \in 0..MaxLen}

SampleTexts ==
  { <<"[", "\"", "a", " ", "a", "\"", ",", " ", "\"", " ", "a", "\"", "]">>,
    <<"<think>", "a", "\n", "a", "</think>", "\n", "[", "\"", "a", "\"", "]">>,
    <<"1", ".", " ", "a", " ", "a", "\n", "-", " ", "a", " ", "a", " ", "a">>,
    <<"[", "\"", "\"", ",", " ", "\"", " ", "\"", "]">>,
    <<"<", "a", "\n", "a", ">", "a", " ", "a">>,
    <<"<THINK>", "a", " ", "a", "</Think>", "a", " ", "a">>,
    <<"\"", "a", " ", "a", "\"">>,
    <<"[", "\"", "a", "\"", "]">> }

FailureKinds == {"timeout", "connection_error", "http_error", "not_json"}
ShapeKinds ==
  {"json_list", "no_choices", "choices_null", "choices_empty", "c0_string",
   "c0_string_text", "c0_number", "c0_null", "c0_empty", "message_empty",
   "content_null", "content_number", "message_str"}
TextKinds == {"text", "message_str_text", "two_choices"}

NotContacted == [kind |-> "not_contacted", text |-> <<>>]

Outcomes ==
  {[kind |-> k, text |-> <<>>] : k \in FailureKinds \cup ShapeKinds}
    \cup {[kind |-> "content", text |-> t] : t \in Texts \cup SampleTexts}
    \cup {[kind |-> k, text |-> t] : k \in TextKinds, t \in SampleTexts}

Choices(c) == Dict([choices |-> List(c)])
Message(m) == Dict([message |-> m])

RemoteJson(o) ==
  CASE o.kind = "json_list" -> List(<<>>)
    [] o.kind = "no_choices" -> EmptyDict
    [] o.kind = "choices_null" -> Dict([choices |-> None])
    [] o.kind = "choices_empty" -> Choices(<<>>)
    [] o.kind = "c0_string" -> Choices(<<Str(<<"a", "b", "c">>)>>)
    [] o.kind = "c0_string_text" -> Choices(<<Str(KeyText("text"))>>)
    [] o.kind = "c0_number" -> Choices(<<Num(5)>>)
    [] o.kind = "c0_null" -> Choices(<<None>>)
    [] o.kind = "c0_empty" -> Choices(<<EmptyDict>>)
    [] o.kind = "message_empty" -> Choices(<<Message(EmptyDict)>>)
    [] o.kind = "content_null" -> Choices(<<Message(Dict([content |-> None]))>>)
    [] o.kind = "content_number" -> Choices(<<Message(Dict([content |-> Num(5)]))>>)
    [] o.kind = "message_str" -> Choices(<<Message(Str(<<"a">>))>>)
    [] o.kind = "content" -> Choices(<<Message(Dict([content |-> Str(o.text)]))>>)
    [] o.kind = "text" -> Choices(<<Dict([text |-> Str(o.text)])>>)
    [] o.kind = "message_str_text" ->
         Choices(<<Dict([message |-> Str(<<"a">>), text |-> Str(o.text)])>>)
    [] OTHER ->
         Choices(<<Message(Dict([content |-> Str(o.text)])),
                   Message(Dict([content |-> Str(<<"a", " ", "a">>)]))>>)

\* ------------------------------------------------------------- call_groq
\* requests.post(..., timeout=20); resp.raise_for_status(); j = resp.json()
\* posts counts the requests sent
\* variant: a failed request is sent a second time
http_post_retry(o) ==
  CASE o.kind = "timeout" ->
         [res |-> Raise("ReadTimeout", "Read timed out. (read timeout=20)"), posts |-> 2]
    [] o.kind = "connection_error" ->
         [res |-> Raise("ConnectionError", "Max retries exceeded with url"), posts |-> 2]
    [] o.kind = "http_error" ->
         [res |-> Raise("HTTPError", "500 Server Error: Internal Server Error for url"),
          posts |-> 2]
    [] o.kind = "not_json" ->
         [res |-> Raise("JSONDecodeError", "Expecting value: line 1 column 1 (char 0)"),
          posts |-> 1]
    [] OTHER -> [res |-> Ok(RemoteJson(o)), posts |-> 1]

http_post(o) ==
  CASE o.kind = "timeout" ->
         [res |-> Raise("ReadTimeout", "Read timed out. (read timeout=20)"), posts |-> 1]
    [] o.kind = "connection_error" ->
         [res |-> Raise("ConnectionError", "Max retries exceeded with url"), posts |-> 1]
    [] o.kind = "http_error" ->
         [res |-> Raise("HTTPError", "500 Server Error: Internal Server Error for url"),
          posts |-> 1]
    [] o.kind = "not_json" ->
         [res |-> Raise("JSONDecodeError", "Expecting value: line 1 column 1 (char 0)"),
          posts |-> 1]
    [] OTHER -> [res |-> Ok(RemoteJson(o)), posts |-> 1]

\* the completion text of a dict c0 (both deployments)
completion_text(c0) ==
  IF "message" \in DOMAIN c0.v /\ c0.v["message"].t = "dict"
    THEN Ok(DictGet(c0.v["message"], "content", Str(<<>>)))
  ELSE IF "text" \in DOMAIN c0.v THEN Ok(DictGet(c0, "text", Str(<<>>)))
  ELSE Ok(Str(<<>>))

\* src/api/app.py: the extraction of call_groq
extract_app(j) ==
  IF j.t = "dict" /\ "choices" \in DOMAIN j.v
    THEN LET n == pylen(j.v["choices"])
         IN IF Raised(n) THEN n
            ELSE IF n.val > 0
              THEN LET c0 == pyfirst(j.v["choices"])
                   IN IF Raised(c0) THEN c0
                      ELSE IF c0.val.t = "dict" THEN completion_text(c0.val)
                      ELSE Ok(Str(<<>>))
            ELSE Ok(Str(<<>>))
    ELSE Ok(Str(<<>>))

\* src/Rentello/api/index.py: the extraction of call_groq, which neither
\* tests the length of choices nor the type of c0
extract_index(j) ==
  IF j.t = "dict" /\ "choices" \in DOMAIN j.v
    THEN LET c0 == pyfirst(j.v["choices"])
         IN IF Raised(c0) THEN c0
            ELSE LET hasMsg == pycontains(c0.val, "message")
                 IN IF Raised(hasMsg) THEN hasMsg
                    ELSE LET msg == IF hasMsg.val THEN pyitem(c0.val, "message") ELSE Ok(None)
                         IN IF Raised(msg) THEN msg
                            ELSE IF hasMsg.val /\ msg.val.t = "dict"
                              THEN Ok(DictGet(msg.val, "content", Str(<<>>)))
                            ELSE LET hasText == pycontains(c0.val, "text")
                                 IN IF hasText.val THEN pyget(c0.val, "text")
                                    ELSE Ok(Str(<<>>))
    ELSE Ok(Str(<<>>))

\* the text call_groq returns in deployment d after the exchange h
extract(d, h) ==
  [res |-> IF Raised(h.res) THEN h.res
           ELSE IF d = "app" THEN extract_app(h.res.val)
           ELSE extract_index(h.res.val),
   posts |-> h.posts]

call_groq(d, o) == extract(d, http_post(o))

\* --------------------------------------------------------------- suggest
\* the three copies of the tier selection
FallbackNoKey(price) ==
  IF price < 1000000 THEN Json200([suggestion |-> LOCAL_FALLBACK.tier2])
  ELSE IF price < 10000000 THEN Json200([suggestion |-> LOCAL_FALLBACK.tier1])
  ELSE Json200([suggestion |-> LOCAL_FALLBACK.global])

FallbackEmpty(price) ==
  IF price < 1000000 THEN Json200([suggestion |-> LOCAL_FALLBACK.tier2])
  ELSE IF price < 10000000 THEN Json200([suggestion |-> LOCAL_FALLBACK.tier1])
  ELSE Json200([suggestion |-> LOCAL_FALLBACK.global])

\* variant: the lower boundary compared with <=
FallbackError_le(price, e) ==
  IF price <= 1000000
    THEN Json200([suggestion |-> LOCAL_FALLBACK.tier2, debug |-> e.msg])
  ELSE IF price < 10000000
    THEN Json200([suggestion |-> LOCAL_FALLBACK.tier1, debug |-> e.msg])
  ELSE Json200([suggestion |-> LOCAL_FALLBACK.global, debug |-> e.msg])

\* variant: the diagnostic left out
FallbackError_nodebug(price, e) ==
  IF price < 1000000 THEN Json200([suggestion |-> LOCAL_FALLBACK.tier2])
  ELSE IF price < 10000000 THEN Json200([suggestion |-> LOCAL_FALLBACK.tier1])
  ELSE Json200([suggestion |-> LOCAL_FALLBACK.global])

FallbackError(price, e) ==
  IF price < 1000000
    THEN Json200([suggestion |-> LOCAL_FALLBACK.tier2, debug |-> e.msg])
  ELSE IF price < 10000000
    THEN Json200([suggestion |-> LOCAL_FALLBACK.tier1, debug |-> e.msg])
  ELSE Json200([suggestion |-> LOCAL_FALLBACK.global, debug |-> e.msg])

\* data = request.json or {}; price = float(data.get("price", 0) or 0)
price_of(body) ==
  LET data == IF Truthy(body) THEN body ELSE EmptyDict
      p == DictGet(data, "price", Num(0))
  IN pyfloat(IF Truthy(p) THEN p ELSE Num(0))

\* the locals of one run of suggest
Locals(path, raw, raw_clean, parsed, lines) ==
  [path |-> path, raw |-> raw, raw_clean |-> raw_clean, parsed |-> parsed, lines |-> lines]
NoLocals == Locals("", None, <<>>, None, <<>>)

Run(response, posts, locals) == [response |-> response, posts |-> posts, locals |-> locals]

\* variant: the heuristic lines tried before the structured parse
select_lines_first(price, raw, raw_clean, parsed, lines) ==
  IF lines # <<>>
    THEN Run(Json200([suggestion |-> lines]), 0,
             Locals("lines", raw, raw_clean, parsed, lines))
  ELSE IF ~Truthy(parsed)
    THEN Run(FallbackEmpty(price), 0, Locals("empty", raw, raw_clean, parsed, lines))
  ELSE Run(Json200([suggestion |-> parsed.v]), 0,
           Locals("parsed", raw, raw_clean, parsed, <<>>))

\* the selection that follows parsed = parse_json_array(raw_clean), with
\* lines = fallback_extract_lines(raw_clean)
select(price, raw, raw_clean, parsed, lines) ==
  IF ~Truthy(parsed)
    THEN IF lines # <<>>
           THEN Run(Json200([suggestion |-> lines]), 0,
                    Locals("lines", raw, raw_clean, parsed, lines))
           ELSE Run(FallbackEmpty(price), 0,
                    Locals("empty", raw, raw_clean, parsed, lines))
    ELSE Run(Json200([suggestion |-> parsed.v]), 0,
             Locals("parsed", raw, raw_clean, parsed, <<>>))

\* the try block from raw_clean = clean_text(raw) on
normalize(price, raw, cleaned) ==
  IF Raised(cleaned) THEN cleaned
  ELSE Ok(select(price, raw, cleaned.val, parse_json_array(cleaned.val),
                 fallback_extract_lines(cleaned.val)))

\* the try block after raw = call_groq(payload)
try_body(price, call) ==
  IF Raised(call.res) THEN call.res
  ELSE normalize(price, call.res.val, clean_text(call.res.val))

WithPosts(run, n) == [run EXCEPT !.posts = n]

\* variant: no except clause, an exception leaves the handler
except_uncaught(price, call, r) ==
  IF Raised(r)
    THEN Run(Unhandled, call.posts, Locals("except", call.res.val, <<>>, None, <<>>))
    ELSE WithPosts(r.val, call.posts)

\* except Exception as e: the fallback with debug = str(e)
except_clause(price, call, r) ==
  IF Raised(r)
    THEN Run(FallbackError(price, r), call.posts,
             Locals("except", call.res.val, <<>>, None, <<>>))
    ELSE WithPosts(r.val, call.posts)

\* the try statement of suggest, given what call_groq did
try_suggest(price, call) == except_clause(price, call, try_body(price, call))

\* variant: the remote service is called whether or not a key is set
suggest_no_key_check(d, key, price, o) ==
  IF Raised(price) THEN Run(Unhandled, 0, Locals("price_error", None, <<>>, None, <<>>))
  ELSE try_suggest(price.val, call_groq(d, o))

\* suggest() from `if not GROQ_KEY` on, price being float(...) of line 104
suggest_priced(d, key, price, o) ==
  IF Raised(price) THEN Run(Unhandled, 0, Locals("price_error", None, <<>>, None, <<>>))
  ELSE IF ~Truthy(key)
    THEN Run(FallbackNoKey(price.val), 0, Locals("no_key", None, <<>>, None, <<>>))
  ELSE try_suggest(price.val, call_groq(d, o))

\* POST /suggest in deployment d
suggest(d, key, body, o) == suggest_priced(d, key, price_of(body), o)

\* --------------------------------------------------------------- predict
Fields ==
  <<"bedrooms", "bathrooms", "lotarea", "grade", "condition", "waterfront", "views">>

\* float(data[f]) for the fields in order: the first exception, if any
RECURSIVE features(_, _)
features(data, k) ==
  IF k > Len(Fields) THEN Ok(None)
  ELSE LET item == pyitem(data, Fields[k])
           x == pyfloat(item.val)
       IN IF Raised(item) THEN item
          ELSE IF Raised(x) THEN x
          ELSE features(data, k + 1)

\* variant: the first field is not converted
predict_skip_first(mdl, data, rent_log) ==
  IF mdl = "none" THEN Json500([error |-> "Model not loaded on server"])
  ELSE LET f == features(data, 2)
       IN IF Raised(f) THEN Json500([error |-> f.msg])
          ELSE Json200([prediction |-> <<"exp", rent_log>>,
                        message |-> <<"Predicted Rent: ", "exp", rent_log>>])

\* POST /predict; rent_log is model.predict(features)[0]
predict(mdl, data, rent_log) ==
  IF mdl = "none" THEN Json500([error |-> "Model not loaded on server"])
  ELSE LET f == features(data, 1)
       IN IF Raised(f) THEN Json500([error |-> f.msg])
          ELSE Json200([prediction |-> <<"exp", rent_log>>,
                        message |-> <<"Predicted Rent: ", "exp", rent_log>>])

\* ---------------------------------------------------------- the requests
Prices == {-1, 999999, 1000000, 5000000, 9999999, 10000000}
PriceValues == {None, Str(<<"a", "b", "c">>)} \cup {Num(n) : n \in Prices}
SuggestBodies == {None, EmptyDict} \cup {Dict([price |-> v]) : v \in PriceValues}

\* a field of a /predict body: absent, a number, or not a number
FieldValues == {"absent", "number", "text", "null"}
FieldValue(x) ==
  CASE x = "number" -> Num(3) [] x = "text" -> Str(<<"a", "b", "c">>) [] OTHER -> None
FieldSet == {Fields[k] : k \in 1..Len(Fields)}
PredictBody(shape) ==
  Dict([f \in {g \in FieldSet : shape[g] # "absent"} |-> FieldValue(shape[f])])
\* at most MaxBadFields fields of a body are absent or not a number
MaxBadFields == 2
PredictShapes ==
  {sh \in [FieldSet -> FieldValues] :
     Cardinality({f \in FieldSet : sh[f] # "number"}) <= MaxBadFields}
PredictBodies == {None} \cup {PredictBody(sh) : sh \in PredictShapes}

RentLogs == {0, 9}

\* ------------------------------------------------------------ the server
VARIABLES GROQ_KEY, model, pc, endpoint, body, remote, response, posts, locals

vars == <<GROQ_KEY, model, pc, endpoint, body, remote, response, posts, locals>>

Idle ==
  /\ pc = "idle"
  /\ endpoint = ""
  /\ body = None
  /\ remote = NotContacted
  /\ response = [d \in Deployments |-> NoResponse]
  /\ posts = [d \in Deployments |-> 0]
  /\ locals = [d \in Deployments |-> NoLocals]

\* the process after start-up: the configuration is read once
Init ==
  /\ GROQ_KEY \in KeyValues
  /\ model \in ModelValues
  /\ Idle

\* a client sends a request
Receive ==
  /\ pc = "idle"
  /\ \/ endpoint' = "/suggest" /\ body' \in SuggestBodies
     \/ endpoint' = "/predict" /\ body' \in PredictBodies
  /\ pc' = "handling"
  /\ UNCHANGED <<GROQ_KEY, model, remote, response, posts, locals>>

\* what the two deployments returned
Returned(app, index) ==
  /\ response' = [d \in Deployments |-> IF d = "app" THEN app.response ELSE index.response]
  /\ posts' = [d \in Deployments |-> IF d = "app" THEN app.posts ELSE index.posts]
  /\ locals' = [d \in Deployments |-> IF d = "app" THEN app.locals ELSE index.locals]

\* suggest() runs to its return, in both deployments, against the same
\* behaviour of the remote service
Suggest ==
  /\ pc = "handling" /\ endpoint = "/suggest"
  /\ \E o \in IF Truthy(GROQ_KEY) /\ ~Raised(price_of(body)) THEN Outcomes ELSE {NotContacted} :
       /\ remote' = o
       /\ Returned(suggest("app", GROQ_KEY, body, o), suggest("index", GROQ_KEY, body, o))
  /\ pc' = "responded"
  /\ UNCHANGED <<GROQ_KEY, model, endpoint, body>>

\* predict() runs to its return
Predict ==
  /\ pc = "handling" /\ endpoint = "/predict"
  /\ \E rent_log \in RentLogs :
       response' = [d \in Deployments |-> predict(model, body, rent_log)]
  /\ pc' = "responded"
  /\ UNCHANGED <<GROQ_KEY, model, endpoint, body, remote, posts, locals>>

\* the response is sent; the process waits for the next request
Respond ==
  /\ pc = "responded"
  /\ pc' = "idle"
  /\ endpoint' = ""
  /\ body' = None
  /\ remote' = NotContacted
  /\ response' = [d \in Deployments |-> NoResponse]
  /\ posts' = [d \in Deployments |-> 0]
  /\ locals' = [d \in Deployments |-> NoLocals]
  /\ UNCHANGED <<GROQ_KEY, model>>

Next == Receive \/ Suggest \/ Predict \/ Respond

Spec == Init /\ [][Next]_vars

\* ================================================================ claims
Responded(ep) == pc = "responded" /\ endpoint = ep

\* the request carries a budget: price absent, null or a number
HasBudget ==
  \/ body.t = "none"
  \/ body.t = "dict" /\ "price" \notin DOMAIN body.v
  \/ body.t = "dict" /\ "price" \in DOMAIN body.v /\ body.v["price"].t \in {"none", "num"}

Budget ==
  IF body.t = "dict" /\ "price" \in DOMAIN body.v /\ body.v["price"].t = "num"
    THEN body.v["price"].v
    ELSE 0

KeySet == GROQ_KEY.t = "str" /\ GROQ_KEY.v # <<>>

\* the tier the specification assigns to a budget
TierOf(p) ==
  IF p < 1000000 THEN LOCAL_FALLBACK.tier2
  ELSE IF p < 10000000 THEN LOCAL_FALLBACK.tier1
  ELSE LOCAL_FALLBACK.global

SuggestionOf(d) == response[d].body.suggestion
HasSuggestion(d) == response[d].status = 200 /\ "suggestion" \in DOMAIN response[d].body
HasDebug(d) == "debug" \in DOMAIN response[d].body

RemoteFailed == remote.kind \in {"timeout", "connection_error", "http_error"}

\* C1: every /suggest request that carries a budget ends, in both
\* deployments, with a normal response whose suggestion list is not empty,
\* whatever the credential and whatever the remote service did.
C1_SuggestAlwaysAnswers ==
  (Responded("/suggest") /\ HasBudget) =>
    \A d \in Deployments : HasSuggestion(d) /\ Len(SuggestionOf(d)) > 0

\* C1 witness: a remote call that raised, or whose text could not be used,
\* was answered with a list.
C1_Witness ==
  /\ Responded("/suggest") /\ KeySet
  /\ remote.kind \in {"timeout", "not_json", "content_number"}
  /\ \A d \in Deployments : HasSuggestion(d) /\ Len(SuggestionOf(d)) > 0

\* C2: on each of the three fallback paths (no credential, nothing
\* normalized, exception) the list is the tier of the budget: below
\* 1,000,000 tier2, below 10,000,000 tier1, otherwise global; so 999,999 and
\* every negative budget give tier2, 1,000,000 and 9,999,999 tier1,
\* 10,000,000 global.
C2_FallbackIsTierOfBudget ==
  \A d \in Deployments :
    (Responded("/suggest") /\ locals[d].path \in {"no_key", "empty", "except"}) =>
      /\ SuggestionOf(d) = TierOf(Budget)
      /\ Budget < 0 => SuggestionOf(d) = LOCAL_FALLBACK.tier2
      /\ Budget = 999999 => SuggestionOf(d) = LOCAL_FALLBACK.tier2
      /\ Budget \in {1000000, 9999999} => SuggestionOf(d) = LOCAL_FALLBACK.tier1
      /\ Budget = 10000000 => SuggestionOf(d) = LOCAL_FALLBACK.global

\* C2 witness: the exception path at the boundary 1,000,000 answered tier1.
C2_Witness ==
  /\ Responded("/suggest") /\ Budget = 1000000
  /\ locals["app"].path = "except"
  /\ SuggestionOf("app") = LOCAL_FALLBACK.tier1

\* C3: without a credential no remote request is sent and the response is
\* exactly the tier list of the budget, without a debug field.
C3_NoKeyNoRemote ==
  (Responded("/suggest") /\ HasBudget /\ ~KeySet) =>
    \A d \in Deployments :
      /\ posts[d] = 0
      /\ remote = NotContacted
      /\ response[d] = Json200([suggestion |-> TierOf(Budget)])

\* C3 witness: no credential, price 5,000,000, the tier1 list.
C3_Witness ==
  /\ Responded("/suggest") /\ ~KeySet /\ Budget = 5000000
  /\ response["app"] = Json200([suggestion |-> LOCAL_FALLBACK.tier1])

\* C4: with a credential, a remote call that times out or fails (transport
\* error, non-success status) is answered with the tier list of the price
\* and a debug field holding a non-empty string.
C4_FailureGivesFallbackAndDebug ==
  (Responded("/suggest") /\ KeySet /\ RemoteFailed) =>
    \A d \in Deployments :
      /\ HasSuggestion(d) /\ SuggestionOf(d) = TierOf(Budget)
      /\ HasDebug(d) /\ response[d].body.debug # ""

\* C4 witness: a timeout answered with the list and the diagnostic.
C4_Witness ==
  /\ Responded("/suggest") /\ KeySet /\ remote.kind = "timeout"
  /\ HasDebug("app") /\ SuggestionOf("app") = TierOf(Budget)

\* the remote answer was a success whose first completion carries a text
FirstCompletionText ==
  remote.kind \in {"content", "text", "message_str_text", "two_choices"}

\* C5: on a successful remote response the entries the Normalizer yields
\* from the first completion's text are the final list, for every budget:
\* the structured-parse entries when there are any, otherwise the heuristic
\* lines when there are any.
C5_NormalizedEntriesReturned ==
  (Responded("/suggest") /\ KeySet /\ HasBudget /\ FirstCompletionText) =>
    LET cleaned == clean_text(Str(remote.text)).val
        entries == parse_json_array(cleaned)
        lines == fallback_extract_lines(cleaned)
    IN \A d \in Deployments :
         /\ (entries.t = "list" /\ entries.v # <<>>) =>
              response[d] = Json200([suggestion |-> entries.v])
         /\ (~(entries.t = "list" /\ entries.v # <<>>) /\ lines # <<>>) =>
              response[d] = Json200([suggestion |-> lines])

\* C5 witness: a JSON array inside reasoning markup came back as its
\* entries, at a budget whose tier list is another one.
C5_Witness ==
  /\ Responded("/suggest") /\ KeySet /\ remote.kind = "content"
  /\ locals["app"].path = "parsed"
  /\ SuggestionOf("app") = << <<"a">> >>

\* C6: one /suggest request sends at most one remote request; after a
\* timeout or an error there is no second attempt and the request
\* completes on the static fallback.
C6_AtMostOneRemoteRequest ==
  \A d \in Deployments :
    /\ posts[d] <= 1
    /\ (Responded("/suggest") /\ KeySet /\ HasBudget
          /\ remote.kind \in {"timeout", "connection_error", "http_error", "not_json"}) =>
         /\ posts[d] = 1
         /\ HasSuggestion(d) /\ SuggestionOf(d) = TierOf(Budget)

\* C6 witness: a transport error after exactly one request.
C6_Witness ==
  /\ Responded("/suggest") /\ remote.kind = "connection_error"
  /\ posts["app"] = 1 /\ SuggestionOf("app") = TierOf(Budget)

\* a /predict body lacks one of the seven fields or holds a non-number
BadPredictBody ==
  \/ body.t # "dict"
  \/ \E f \in FieldSet : f \notin DOMAIN body.v \/ body.v[f].t # "num"

KeptPositions(text) == {CleanMarked(text)[n].i : n \in 1..Len(CleanMarked(text))}

\* a markup-like tag: a "<" with a ">" after it
HasTag(s) ==
  \/ \E a \in 1..Len(s) : s[a] \in TagItems
  \/ \E a \in 1..Len(s) : \E b \in (a + 1)..Len(s) : s[a] = "<" /\ s[b] = ">"

\* C8: the text clean_text returns holds nothing of what stands between a
\* reasoning opening tag and its closing tag (any case, across line
\* breaks), holds no markup-like tag, and neither starts nor ends with white
\* space; an empty or null text gives the empty string.
C8_CleanTextStripsMarkup ==
  \A d \in Deployments :
    (Responded("/suggest") /\ locals[d].path \in {"parsed", "lines", "empty"}) =>
      LET raw == locals[d].raw
          out == locals[d].raw_clean
      IN /\ ~Truthy(raw) => out = <<>>
         /\ raw.t = "str" =>
              /\ \A i \in 1..Len(raw.v) : \A k \in (i + 1)..Len(raw.v) :
                   ( /\ raw.v[i] \in ThinkOpen /\ raw.v[k] \in ThinkClose
                     /\ \A j \in (i + 1)..(k - 1) : raw.v[j] \notin TagItems )
                   => \A j \in i..k : j \notin KeptPositions(raw.v)
              /\ ~HasTag(out)
              /\ out = strip(out)

\* the cleaned text is a well-formed JSON array of strings
IsJsonArrayOfStrings(s) ==
  LET r == json_loads(s)
  IN ~Raised(r) /\ r.val.t = "list" /\ \A k \in 1..Len(r.val.v) : r.val.v[k].t = "str"

\* C9: the heuristic lines are used only when the cleaned text is not a
\* well-formed JSON array of strings; a list of heuristic lines is never
\* the response for a cleaned text that is one.
C9_HeuristicOnlyAfterParseFailure ==
  \A d \in Deployments :
    (Responded("/suggest") /\ locals[d].path = "lines") =>
      ~IsJsonArrayOfStrings(locals[d].raw_clean)

\* C10: the two deployments answer every /suggest request alike: the same
\* suggestion list, and a debug field in both or in neither.
C10_DeploymentsEquivalent ==
  (Responded("/suggest") /\ HasBudget) =>
    /\ SuggestionOf("app") = SuggestionOf("index")
    /\ HasDebug("app") <=> HasDebug("index")

====
